---- MODULE Spec2Model ----
(***************************************************************************)
(* Model of rag/preprocess.py: chunk_markdown, the header-driven markdown  *)
(* sectioner.  Text is modelled character by character: a string is a      *)
(* sequence of one-character strings, the empty string is << >>.           *)
(* One call of chunk_markdown is one behaviour: Init is the state after    *)
(* the prologue (lines 21-26), every iteration of the for loop is one      *)
(* step (HeaderLine or PlainLine) and the code after the loop is the step  *)
(* FinalFlush.  Python lists that the code could alias (the header         *)
(* hierarchy and the headers of a chunk) live in a heap of list objects    *)
(* and are held by reference, as in the interpreter.                       *)
(*                                                                         *)
(* Two further specifications share the module.  TwoSpec runs two calls    *)
(* of chunk_markdown step by step in any interleaving: calls[c] holds the  *)
(* locals of call c and heap is the one heap of the process.  MainSpec is  *)
(* one run of main: the files found, the loop that loads and chunks them,  *)
(* generate_embeddings and the two output files.                           *)
(***************************************************************************)
EXTENDS Naturals, Sequences, FiniteSets

VARIABLES content, source, lines, i, chunks, current_chunk, current_headers,
          chunk_id, heap, pc

\* the locals of two concurrent calls of chunk_markdown
VARIABLES calls

\* main: the files found and the position in them, its locals, what
\* generate_embeddings built and how often it called the encoder, the two
\* output files, and where the run stands
VARIABLES md_files, md_i, all_chunks, texts, embeddings, encode_calls,
          chunks_json, embeddings_json, mpc

\* the locals of the single call
callVars == <<content, source, lines, i, chunks, current_chunk,
              current_headers, chunk_id, pc>>

mainVars == <<md_files, md_i, all_chunks, texts, embeddings, encode_calls,
              chunks_json, embeddings_json, mpc>>

vars == <<callVars, heap, calls, mainVars>>

(***************************************************************************)
(* Bounds of the model.                                                    *)
(***************************************************************************)
\* longest document of the character-level family
MaxLen == 5
\* most lines in a document of the line-level family
MaxLines == 3
\* deepest header level of a line of the line-level family
MaxShallow == 2
\* most lines that follow the nested preamble in the deep family
MaxTail == 2
\* most leading '#' of a line that follows the nested preamble
MaxHashes == 6
\* most lines in a document of the fence and blank-title family
MaxEdge == 4
\* most lines in a document of one of two concurrent calls
MaxCallLines == 2
\* most markdown files in the documents directory
MaxFiles == 2

(***************************************************************************)
(* Program constants.                                                      *)
(***************************************************************************)
\* number of hierarchy slots, h1-h5
NumLevels == 5
\* most '#' the header pattern accepts: #{1,5}
MaxHeaderHashes == 5

(***************************************************************************)
(* Characters and strings.                                                 *)
(***************************************************************************)
NL == "\n"
\* the characters str.strip() removes and \s matches, within the alphabet
Whitespace == {" ", "\t", NL}

None == [none |-> TRUE]

IsSpace(c) == c \in Whitespace

AllSpace(s) == \A k \in 1..Len(s) : IsSpace(s[k])

SetMin(S) == CHOOSE x \in S : \A y \in S : x <= y
SetMax(S) == CHOOSE x \in S : \A y \in S : y <= x

\* a split that drops the empty pieces, as str.split() without argument does
RECURSIVE SplitDropEmpty(_)
SplitDropEmpty(s) ==
    LET nls == {k \in 1..Len(s) : s[k] = NL}
    IN  IF nls = {} THEN (IF s = << >> THEN << >> ELSE <<s>>)
        ELSE LET k == SetMin(nls)
             IN  (IF k = 1 THEN << >> ELSE <<SubSeq(s, 1, k - 1)>>)
                    \o SplitDropEmpty(SubSeq(s, k + 1, Len(s)))

\* str.split('\n'): always at least one piece, empty pieces are kept
RECURSIVE Split(_)
Split(s) ==
    LET nls == {k \in 1..Len(s) : s[k] = NL}
    IN  IF nls = {} THEN <<s>>
        ELSE LET k == SetMin(nls)
             IN  <<SubSeq(s, 1, k - 1)>> \o Split(SubSeq(s, k + 1, Len(s)))

\* '\n'.join(ls)
RECURSIVE Join(_)
Join(ls) ==
    IF Len(ls) = 0 THEN << >>
    ELSE IF Len(ls) = 1 THEN ls[1]
    ELSE ls[1] \o <<NL>> \o Join(Tail(ls))

\* a strip of the leading whitespace only, as str.lstrip() does
StripLeftOnly(s) ==
    LET keep == {k \in 1..Len(s) : ~IsSpace(s[k])}
    IN  IF keep = {} THEN << >> ELSE SubSeq(s, SetMin(keep), Len(s))

\* str.strip(): drop leading and trailing whitespace, keep the interior
Strip(s) ==
    LET keep == {k \in 1..Len(s) : ~IsSpace(s[k])}
    IN  IF keep = {} THEN << >> ELSE SubSeq(s, SetMin(keep), SetMax(keep))

\* str(n) as used by the f-string: decimal digits, no padding
DigitChar == <<"0", "1", "2", "3", "4", "5", "6", "7", "8", "9">>
RECURSIVE Digits(_)
Digits(n) ==
    IF n < 10 THEN <<DigitChar[n + 1]>>
    ELSE Digits(n \div 10) \o <<DigitChar[(n % 10) + 1]>>

\* f"{source}_{chunk_id}"
\* an id made of the counter alone
FormatIdCounterOnly(src, n) == <<"_">> \o Digits(n)

FormatId(src, n) == src \o <<"_">> \o Digits(n)

\* the splits of the pattern ^(#{1,6})\s+(.+)$
MatchSplitsSix(line) ==
    LET ks == {k \in 1..(MaxHeaderHashes + 1) :
                  k < Len(line) /\ \A j \in 1..k : line[j] = "#"}
    IN  UNION {{<<k, w>> : w \in {v \in 1..(Len(line) - k - 1) :
                                /\ \A j \in (k + 1)..(k + v) : IsSpace(line[j])
                                /\ \A j \in (k + v + 1)..Len(line) : line[j] # NL}}
               : k \in ks}

(***************************************************************************)
(* re.match(r'^(#{1,5})\s+(.+)$', line).  A match splits the line into k   *)
(* '#' (1 <= k <= 5), w >= 1 whitespace characters and a non-empty rest    *)
(* without newline that reaches the end of the line.  Both quantifiers are *)
(* greedy, so the engine returns the split with the largest k and, for     *)
(* that k, the largest w.                                                  *)
(***************************************************************************)
MatchSplits(line) ==
    LET ks == {k \in 1..MaxHeaderHashes :
                  k < Len(line) /\ \A j \in 1..k : line[j] = "#"}
    IN  UNION {{<<k, w>> : w \in {v \in 1..(Len(line) - k - 1) :
                                /\ \A j \in (k + 1)..(k + v) : IsSpace(line[j])
                                /\ \A j \in (k + v + 1)..Len(line) : line[j] # NL}}
               : k \in ks}

HeaderMatch(line) ==
    LET ms == MatchSplits(line)
    IN  IF ms = {} THEN None
        ELSE LET k == SetMax({m[1] : m \in ms})
                 w == SetMax({m[2] : m \in {x \in ms : x[1] = k}})
             IN  [group1 |-> SubSeq(line, 1, k),
                  group2 |-> SubSeq(line, k + w + 1, Len(line))]

IsHeader(line) == HeaderMatch(line) # None

\* level = len(header_match.group(1))
Level(line) == Len(HeaderMatch(line).group1)

\* header_text = header_match.group(2).strip()
HeaderText(line) == Strip(HeaderMatch(line).group2)

(***************************************************************************)
(* The header hierarchy.                                                   *)
(***************************************************************************)
\* ['', '', '', '', '']
EmptyHeaders == [l \in 1..NumLevels |-> << >>]

\* an update that clears the deeper slots only when the text at the level changes
UpdateHeadersIfChanged(h, level, text) ==
    [l \in 1..NumLevels |->
        IF l = level THEN text
        ELSE IF l > level /\ h[level] # text THEN << >> ELSE h[l]]

\* current_headers[level - 1] = header_text; for i in range(level, 5): ... = ''
UpdateHeaders(h, level, text) ==
    [l \in 1..NumLevels |->
        IF l = level THEN text ELSE IF l > level THEN << >> ELSE h[l]]

\* list(current_headers): a new list of all five slots, empty ones included
FilterHeadersKeepAll(h) == h

\* [h for h in current_headers if h]: a new list of the non-empty slots
FilterHeaders(h) == SelectSeq(h, LAMBDA x : x # << >>)

(***************************************************************************)
(* The flush that both the header branch and the code after the loop       *)
(* perform: when the accumulator is not empty, join and strip its lines    *)
(* and, when the text is not empty, append one chunk whose headers is a    *)
(* freshly allocated list.  The header branch keeps the advanced counter,  *)
(* the code after the loop does not advance it.                            *)
(* cs: chunks, cc: current_chunk, hp: heap, hdr: reference of              *)
(* current_headers, cid: chunk_id, src: source.                            *)
(***************************************************************************)
\* a flush that stores the hierarchy list itself as the chunk's headers
FlushAliasHeaders(cs, cc, hp, hdr, cid, src) ==
    LET text == Strip(Join(cc))
    IN  IF cc # << >> /\ text # << >>
        THEN [chunks   |-> Append(cs, [id      |-> FormatId(src, cid),
                                       source  |-> src,
                                       headers |-> hdr,
                                       text    |-> text]),
              heap     |-> hp,
              chunk_id |-> cid + 1]
        ELSE [chunks |-> cs, heap |-> hp, chunk_id |-> cid]

\* a flush that advances the counter also when it discards the text
FlushCountsDiscard(cs, cc, hp, hdr, cid, src) ==
    LET text == Strip(Join(cc))
    IN  IF cc # << >> /\ text # << >>
        THEN [chunks   |-> Append(cs, [id      |-> FormatId(src, cid),
                                       source  |-> src,
                                       headers |-> Len(hp) + 1,
                                       text    |-> text]),
              heap     |-> Append(hp, FilterHeaders(hp[hdr])),
              chunk_id |-> cid + 1]
        ELSE [chunks |-> cs, heap |-> hp, chunk_id |-> cid + 1]

\* a flush without the test "if text"
FlushNoTextCheck(cs, cc, hp, hdr, cid, src) ==
    LET text == Strip(Join(cc))
    IN  IF cc # << >>
        THEN [chunks   |-> Append(cs, [id      |-> FormatId(src, cid),
                                       source  |-> src,
                                       headers |-> Len(hp) + 1,
                                       text    |-> text]),
              heap     |-> Append(hp, FilterHeaders(hp[hdr])),
              chunk_id |-> cid + 1]
        ELSE [chunks |-> cs, heap |-> hp, chunk_id |-> cid]

Flush(cs, cc, hp, hdr, cid, src) ==
    LET text == Strip(Join(cc))
    IN  IF cc # << >> /\ text # << >>
        THEN [chunks   |-> Append(cs, [id      |-> FormatId(src, cid),
                                       source  |-> src,
                                       headers |-> Len(hp) + 1,
                                       text    |-> text]),
              heap     |-> Append(hp, FilterHeaders(hp[hdr])),
              chunk_id |-> cid + 1]
        ELSE [chunks |-> cs, heap |-> hp, chunk_id |-> cid]

(***************************************************************************)
(* Documents.                                                              *)
(***************************************************************************)
Alphabet == {"#", " ", NL, "a"}

Strings(A, m) == UNION {[1..n -> A] : n \in 0..m}

\* every string of at most MaxLen characters over Alphabet, and every string
\* of less than MaxLen characters over Alphabet and the tab
CharDocs == Strings(Alphabet, MaxLen) \cup Strings(Alphabet \cup {"\t"}, MaxLen - 1)

RECURSIVE Hashes(_)
Hashes(n) == IF n = 0 THEN << >> ELSE <<"#">> \o Hashes(n - 1)

Titles == {<<"a">>, <<"b">>}

\* header-shaped lines of the levels 1..MaxShallow, a line of six '#', a line
\* of plain text and a blank line
ShallowVocab ==
    {Hashes(n) \o <<" ">> \o t : n \in 1..MaxShallow, t \in Titles}
        \cup {Hashes(MaxHeaderHashes + 1) \o <<" ", "a">>, <<"x">>, << >>}

\* header-shaped lines with 1..MaxHashes '#', a line of plain text and a
\* blank line
DeepVocab ==
    {Hashes(n) \o <<" ", "a">> : n \in 1..MaxHashes} \cup {<<"x">>, << >>}

LineSeqs(V, m) == UNION {[1..n -> V] : n \in 1..m}

\* every document of at most MaxLines lines of ShallowVocab
LineDocs == {Join(ls) : ls \in LineSeqs(ShallowVocab, MaxLines)}

\* a document nested four levels deep, followed by at most MaxTail lines of
\* DeepVocab
Preamble ==
    <<Hashes(1) \o <<" ", "a">>, Hashes(2) \o <<" ", "b">>,
      Hashes(3) \o <<" ", "a">>, Hashes(4) \o <<" ", "b">>>>

DeepDocs == {Join(Preamble \o ls) : ls \in LineSeqs(DeepVocab, MaxTail)}

\* a code fence line, a header-shaped line whose title is blank, a header
\* line and a line of plain text
\* (the fence character is written "~": a TLA+ string cannot hold a backquote,
\* and the code treats both as any character that is neither '#' nor blank)
Tick == "~"
Fence == <<Tick, Tick, Tick>>
EdgeVocab == {Fence, <<"#", " ", " ">>, <<"#", " ", "a">>, <<"x">>}

\* every document of at most MaxEdge lines of EdgeVocab
EdgeDocs == {Join(ls) : ls \in LineSeqs(EdgeVocab, MaxEdge)}

Docs == CharDocs \cup LineDocs \cup DeepDocs \cup EdgeDocs

Sources == {<<"a">>, <<"a", "_", "1">>}

(***************************************************************************)
(* The state machine.                                                      *)
(***************************************************************************)
\* the slots of the hierarchy list
Slots == heap[current_headers]

\* chunk k as the caller reads it: headers dereferenced
ChunkAt(k) == [chunks[k] EXCEPT !.headers = heap[@]]

\* the chunk list as the caller reads it
Emitted == [k \in 1..Len(chunks) |-> ChunkAt(k)]

\* no concurrent calls are running
NoCalls == calls = << >>

\* main is not running
MainIdle ==
    /\ md_files = << >>
    /\ md_i = 1
    /\ all_chunks = << >>
    /\ texts = << >>
    /\ embeddings = << >>
    /\ encode_calls = 0
    /\ chunks_json = None
    /\ embeddings_json = None
    /\ mpc = "idle"

Init ==
    /\ content \in Docs
    /\ source \in Sources
    /\ chunks = << >>
    /\ lines = Split(content)
    /\ i = 1
    /\ current_chunk = << >>
    /\ heap = <<EmptyHeaders>>
    /\ current_headers = 1
    /\ chunk_id = 0
    /\ pc = "loop"
    /\ NoCalls
    /\ MainIdle

\* the header branch with the hierarchy updated before the flush
HeaderLineUpdateFirst ==
    /\ pc = "loop"
    /\ i <= Len(lines)
    /\ IsHeader(lines[i])
    /\ LET hp == [heap EXCEPT ![current_headers] =
                     UpdateHeaders(@, Level(lines[i]), HeaderText(lines[i]))]
           f == Flush(chunks, current_chunk, hp, current_headers,
                      chunk_id, source)
       IN  /\ chunks' = f.chunks
           /\ chunk_id' = f.chunk_id
           /\ heap' = f.heap
    /\ current_chunk' = <<lines[i]>>
    /\ i' = i + 1
    /\ UNCHANGED <<content, source, lines, current_headers, pc>>
    /\ UNCHANGED <<calls, mainVars>>

\* the header branch that starts the next accumulator without its header line
HeaderLineDropsLine ==
    /\ pc = "loop"
    /\ i <= Len(lines)
    /\ IsHeader(lines[i])
    /\ LET f == Flush(chunks, current_chunk, heap, current_headers,
                      chunk_id, source)
       IN  /\ chunks' = f.chunks
           /\ chunk_id' = f.chunk_id
           /\ heap' = [f.heap EXCEPT ![current_headers] =
                          UpdateHeaders(@, Level(lines[i]), HeaderText(lines[i]))]
    /\ current_chunk' = << >>
    /\ i' = i + 1
    /\ UNCHANGED <<content, source, lines, current_headers, pc>>
    /\ UNCHANGED <<calls, mainVars>>

\* one iteration of the loop on a line that matches the header pattern
HeaderLine ==
    /\ pc = "loop"
    /\ i <= Len(lines)
    /\ IsHeader(lines[i])
    /\ LET f == Flush(chunks, current_chunk, heap, current_headers,
                      chunk_id, source)
       IN  /\ chunks' = f.chunks
           /\ chunk_id' = f.chunk_id
           /\ heap' = [f.heap EXCEPT ![current_headers] =
                          UpdateHeaders(@, Level(lines[i]), HeaderText(lines[i]))]
    /\ current_chunk' = <<lines[i]>>
    /\ i' = i + 1
    /\ UNCHANGED <<content, source, lines, current_headers, pc>>
    /\ UNCHANGED <<calls, mainVars>>

\* a line that opens or closes a fenced code block
IsFenceLine(line) ==
    Len(Strip(line)) >= Len(Fence) /\ SubSeq(Strip(line), 1, Len(Fence)) = Fence

\* line j lies inside a fenced code block: an odd number of fence lines
\* precede it
InFence(j) ==
    Cardinality({k \in 1..(j - 1) : IsFenceLine(lines[k])}) % 2 = 1

\* the else branch of a scanner that tracks fences and takes every line
\* inside a fenced block as content
PlainLineFenceAware ==
    /\ pc = "loop"
    /\ i <= Len(lines)
    /\ ~IsHeader(lines[i]) \/ InFence(i)
    /\ current_chunk' = Append(current_chunk, lines[i])
    /\ i' = i + 1
    /\ UNCHANGED <<content, source, lines, chunks, current_headers,
                   chunk_id, heap, pc>>
    /\ UNCHANGED <<calls, mainVars>>

\* one iteration of the loop on any other line
PlainLine ==
    /\ pc = "loop"
    /\ i <= Len(lines)
    /\ ~IsHeader(lines[i])
    /\ current_chunk' = Append(current_chunk, lines[i])
    /\ i' = i + 1
    /\ UNCHANGED <<content, source, lines, chunks, current_headers,
                   chunk_id, heap, pc>>
    /\ UNCHANGED <<calls, mainVars>>

\* the code after the loop without the last flush
FinalFlushReturnsOnly ==
    /\ pc = "loop"
    /\ i > Len(lines)
    /\ pc' = "done"
    /\ UNCHANGED <<content, source, lines, i, chunks, current_chunk,
                   current_headers, chunk_id, heap>>
    /\ UNCHANGED <<calls, mainVars>>

\* the code after the loop: the last chunk, then return
FinalFlush ==
    /\ pc = "loop"
    /\ i > Len(lines)
    /\ LET f == Flush(chunks, current_chunk, heap, current_headers,
                      chunk_id, source)
       IN  /\ chunks' = f.chunks
           /\ heap' = f.heap
    /\ pc' = "done"
    /\ UNCHANGED <<content, source, lines, i, current_chunk, current_headers,
                   chunk_id>>
    /\ UNCHANGED <<calls, mainVars>>

Next == HeaderLine \/ PlainLine \/ FinalFlush

Spec == Init /\ [][Next]_vars

TypeOK ==
    /\ pc \in {"loop", "done"}
    /\ i \in 1..(Len(lines) + 1)
    /\ chunk_id <= Len(chunks)
    /\ current_headers = 1

(***************************************************************************)
(* A call of chunk_markdown as a frame of locals, stepped over a heap.     *)
(***************************************************************************)
\* the frame of a call chunk_markdown(d, s) before its first statement
NewCall(d, s) ==
    [content |-> d, source |-> s, lines |-> << >>, i |-> 1, chunks |-> << >>,
     current_chunk |-> << >>, current_headers |-> 0, chunk_id |-> 0,
     pc |-> "start"]

\* a prologue that takes the hierarchy from one list kept outside the call
EnterSharedHierarchy(f, hp) ==
    [f |-> [f EXCEPT !.lines = Split(f.content),
                     !.current_headers = 1,
                     !.pc = "loop"],
     heap |-> IF hp = << >> THEN <<EmptyHeaders>> ELSE hp]

\* the prologue: every local is created anew, the hierarchy is a new list
Enter(f, hp) ==
    [f |-> [f EXCEPT !.lines = Split(f.content),
                     !.current_headers = Len(hp) + 1,
                     !.pc = "loop"],
     heap |-> Append(hp, EmptyHeaders)]

\* one iteration of the loop on a header line
StepHeader(f, hp) ==
    LET line == f.lines[f.i]
        r == Flush(f.chunks, f.current_chunk, hp, f.current_headers,
                   f.chunk_id, f.source)
    IN  [f |-> [f EXCEPT !.chunks = r.chunks,
                         !.chunk_id = r.chunk_id,
                         !.current_chunk = <<line>>,
                         !.i = f.i + 1],
         heap |-> [r.heap EXCEPT ![f.current_headers] =
                      UpdateHeaders(@, Level(line), HeaderText(line))]]

\* one iteration of the loop on any other line
StepPlain(f, hp) ==
    [f |-> [f EXCEPT !.current_chunk = Append(f.current_chunk, f.lines[f.i]),
                     !.i = f.i + 1],
     heap |-> hp]

\* the code after the loop
Leave(f, hp) ==
    LET r == Flush(f.chunks, f.current_chunk, hp, f.current_headers,
                   f.chunk_id, f.source)
    IN  [f |-> [f EXCEPT !.chunks = r.chunks, !.pc = "done"],
         heap |-> r.heap]

\* the next statement of a call that has not returned
Step(f, hp) ==
    IF f.pc = "start" THEN Enter(f, hp)
    ELSE IF f.i > Len(f.lines) THEN Leave(f, hp)
    ELSE IF IsHeader(f.lines[f.i]) THEN StepHeader(f, hp)
    ELSE StepPlain(f, hp)

RECURSIVE Run(_, _)
Run(f, hp) ==
    IF f.pc = "done" THEN [f |-> f, heap |-> hp]
    ELSE LET n == Step(f, hp) IN Run(n.f, n.heap)

\* the chunk list of frame f as its caller reads it
Returned(f, hp) ==
    [k \in 1..Len(f.chunks) |-> [f.chunks[k] EXCEPT !.headers = hp[@]]]

\* chunk_markdown(d, s) run alone, from call to return
ChunkMarkdown(d, s) ==
    LET r == Run(NewCall(d, s), << >>) IN Returned(r.f, r.heap)

\* the single call of Spec returns what the frame run returns
FrameAgrees == pc = "done" => Emitted = ChunkMarkdown(content, source)

(***************************************************************************)
(* Two concurrent calls.                                                   *)
(***************************************************************************)
CallVocab == {<<"#", " ", "a">>, <<"#", "#", " ", "b">>, <<"x">>}
CallDocs == {Join(ls) : ls \in LineSeqs(CallVocab, MaxCallLines)}
CallIds == {1, 2}
\* the source of each call: the second extends the first by '_' and a digit
CallSources == <<<<"a">>, <<"a", "_", "1">>>>

\* the single call is not running
CallIdle ==
    /\ content = << >>
    /\ source = << >>
    /\ lines = << >>
    /\ i = 1
    /\ chunks = << >>
    /\ current_chunk = << >>
    /\ current_headers = 0
    /\ chunk_id = 0
    /\ pc = "idle"

TwoInit ==
    /\ \E d \in [CallIds -> CallDocs] :
          calls = [c \in CallIds |-> NewCall(d[c], CallSources[c])]
    /\ heap = << >>
    /\ CallIdle
    /\ MainIdle

\* call c has run a statement that left it in frame n.f over heap n.heap
CallDoes(c, n) ==
    /\ calls' = [calls EXCEPT ![c] = n.f]
    /\ heap' = n.heap
    /\ UNCHANGED <<callVars, mainVars>>

CallEnter(c) ==
    /\ calls[c].pc = "start"
    /\ CallDoes(c, Enter(calls[c], heap))

CallHeaderLine(c) ==
    /\ calls[c].pc = "loop"
    /\ calls[c].i <= Len(calls[c].lines)
    /\ IsHeader(calls[c].lines[calls[c].i])
    /\ CallDoes(c, StepHeader(calls[c], heap))

CallPlainLine(c) ==
    /\ calls[c].pc = "loop"
    /\ calls[c].i <= Len(calls[c].lines)
    /\ ~IsHeader(calls[c].lines[calls[c].i])
    /\ CallDoes(c, StepPlain(calls[c], heap))

CallReturn(c) ==
    /\ calls[c].pc = "loop"
    /\ calls[c].i > Len(calls[c].lines)
    /\ CallDoes(c, Leave(calls[c], heap))

TwoNext ==
    \E c \in CallIds :
        CallEnter(c) \/ CallHeaderLine(c) \/ CallPlainLine(c) \/ CallReturn(c)

TwoSpec == TwoInit /\ [][TwoNext]_vars

(***************************************************************************)
(* generate_embeddings and main.                                           *)
(***************************************************************************)
\* sep.join(ls)
RECURSIVE JoinWith(_, _)
JoinWith(sep, ls) ==
    IF ls = << >> THEN << >>
    ELSE IF Len(ls) = 1 THEN ls[1]
    ELSE ls[1] \o sep \o JoinWith(sep, Tail(ls))

HeaderSep == <<" ", ">", " ">>

\* a prefix that ends with the newline also when there are no headers
HeaderPrefixAlways(chunk) == JoinWith(HeaderSep, chunk.headers) \o <<NL>>

\* header_prefix of a chunk
HeaderPrefix(chunk) ==
    IF chunk.headers # << >>
    THEN JoinWith(HeaderSep, chunk.headers) \o <<NL>>
    ELSE << >>

\* the text of a chunk that is handed to the encoder
EmbedText(chunk) == HeaderPrefix(chunk) \o chunk.text

\* The encoder is outside the program.  It is taken to return one vector
\* per text, in the order of the texts; a vector is known only by the text
\* it was computed from.
Vector(t) == [of |-> t]
Encode(ts) == [k \in 1..Len(ts) |-> Vector(ts[k])]

\* the stems of the markdown files a directory can hold, and their contents
Stems == {<<"a">>, <<"a", "_", "1">>, <<"b">>}
MainDocs ==
    {Join(ls) : ls \in {<<<<"x">>>>,
                        <<<<" ">>>>,
                        <<<<"#", " ", "a">>, <<"x">>>>,
                        <<<<"x">>, <<"#", " ", "a">>, <<"#", "#", " ", "b">>>>}}

\* a file that can be read as UTF-8 text, or one that cannot
Files ==
    {[stem |-> st, readable |-> TRUE, content |-> d] :
        st \in Stems, d \in MainDocs} \cup
    {[stem |-> st, readable |-> FALSE, content |-> << >>] : st \in Stems}

\* what glob can return: at most MaxFiles files of different names
FileLists ==
    {<< >>} \cup
    {fs \in LineSeqs(Files, MaxFiles) :
        \A j, k \in 1..Len(fs) : j # k => fs[j].stem # fs[k].stem}

\* a file that holds data; a file that was not written is None
Written(data) == [data |-> data]

MainInit ==
    /\ md_files \in FileLists
    /\ md_i = 1
    /\ all_chunks = << >>
    /\ texts = << >>
    /\ embeddings = << >>
    /\ encode_calls = 0
    /\ chunks_json = None
    /\ embeddings_json = None
    /\ mpc = "load"
    /\ heap = << >>
    /\ CallIdle
    /\ NoCalls

\* no markdown file was found: main reports it and returns
NoFiles ==
    /\ mpc = "load"
    /\ md_files = << >>
    /\ mpc' = "done"
    /\ UNCHANGED <<md_files, md_i, all_chunks, texts, embeddings,
                   encode_calls, chunks_json, embeddings_json>>
    /\ UNCHANGED <<callVars, heap, calls>>

\* one iteration of the loop over the files: read, chunk, pool
LoadFile ==
    /\ mpc = "load"
    /\ md_i <= Len(md_files)
    /\ md_files[md_i].readable
    /\ all_chunks' = all_chunks \o
           ChunkMarkdown(md_files[md_i].content, md_files[md_i].stem)
    /\ md_i' = md_i + 1
    /\ UNCHANGED <<md_files, texts, embeddings, encode_calls, chunks_json,
                   embeddings_json, mpc>>
    /\ UNCHANGED <<callVars, heap, calls>>

\* read_text raises: nothing catches the exception and the run ends
LoadFails ==
    /\ mpc = "load"
    /\ md_i <= Len(md_files)
    /\ ~md_files[md_i].readable
    /\ mpc' = "crashed"
    /\ UNCHANGED <<md_files, md_i, all_chunks, texts, embeddings,
                   encode_calls, chunks_json, embeddings_json>>
    /\ UNCHANGED <<callVars, heap, calls>>

\* main is at the call of generate_embeddings
AtEmbed == mpc = "load" /\ md_files # << >> /\ md_i > Len(md_files)

\* a generate_embeddings that builds no text for a chunk without headers
GenerateEmbeddingsSkipsBare ==
    /\ AtEmbed
    /\ texts' = [k \in 1..Len(SelectSeq(all_chunks,
                                        LAMBDA c : c.headers # << >>)) |->
                    EmbedText(SelectSeq(all_chunks,
                                        LAMBDA c : c.headers # << >>)[k])]
    /\ encode_calls' = encode_calls + 1
    /\ embeddings' = Encode(texts')
    /\ mpc' = "write_chunks"
    /\ UNCHANGED <<md_files, md_i, all_chunks, chunks_json, embeddings_json>>
    /\ UNCHANGED <<callVars, heap, calls>>

\* generate_embeddings(all_chunks) returns
GenerateEmbeddings ==
    /\ AtEmbed
    /\ texts' = [k \in 1..Len(all_chunks) |-> EmbedText(all_chunks[k])]
    /\ encode_calls' = encode_calls + 1
    /\ embeddings' = Encode(texts')
    /\ mpc' = "write_chunks"
    /\ UNCHANGED <<md_files, md_i, all_chunks, chunks_json, embeddings_json>>
    /\ UNCHANGED <<callVars, heap, calls>>

\* generate_embeddings raises (the model does not load, the encoder fails):
\* nothing catches the exception and the run ends
EmbedFails ==
    /\ AtEmbed
    /\ mpc' = "crashed"
    /\ UNCHANGED <<md_files, md_i, all_chunks, texts, embeddings,
                   encode_calls, chunks_json, embeddings_json>>
    /\ UNCHANGED <<callVars, heap, calls>>

\* chunks.json is written
WriteChunks ==
    /\ mpc = "write_chunks"
    /\ chunks_json' = Written(all_chunks)
    /\ mpc' = "write_embeddings"
    /\ UNCHANGED <<md_files, md_i, all_chunks, texts, embeddings,
                   encode_calls, embeddings_json>>
    /\ UNCHANGED <<callVars, heap, calls>>

\* a main that writes embeddings.json before chunks.json
WriteEmbeddingsFirst ==
    /\ mpc \in {"write_chunks", "write_embeddings"}
    /\ embeddings_json = None
    /\ embeddings_json' = Written(embeddings)
    /\ mpc' = IF mpc = "write_embeddings" THEN "sample" ELSE mpc
    /\ UNCHANGED <<md_files, md_i, all_chunks, texts, embeddings,
                   encode_calls, chunks_json>>
    /\ UNCHANGED <<callVars, heap, calls>>

\* embeddings.json is written
WriteEmbeddings ==
    /\ mpc = "write_embeddings"
    /\ embeddings_json' = Written(embeddings)
    /\ mpc' = "sample"
    /\ UNCHANGED <<md_files, md_i, all_chunks, texts, embeddings,
                   encode_calls, chunks_json>>
    /\ UNCHANGED <<callVars, heap, calls>>

\* the sample is printed and main returns
PrintSample ==
    /\ mpc = "sample"
    /\ mpc' = "done"
    /\ UNCHANGED <<md_files, md_i, all_chunks, texts, embeddings,
                   encode_calls, chunks_json, embeddings_json>>
    /\ UNCHANGED <<callVars, heap, calls>>

MainNext ==
    \/ NoFiles
    \/ LoadFile
    \/ LoadFails
    \/ GenerateEmbeddings
    \/ EmbedFails
    \/ WriteChunks
    \/ WriteEmbeddings
    \/ PrintSample

MainSpec == MainInit /\ [][MainNext]_vars

(***************************************************************************)
(* Properties of chunk_markdown.                                           *)
(***************************************************************************)
Done == pc = "done"

\* the loop is about to process a line / a header line
AtLine == pc = "loop" /\ i <= Len(lines)
AtHeader == AtLine /\ IsHeader(lines[i])

\* this step appends a chunk
Emits == Len(chunks') > Len(chunks)
LastEmitted == ChunkAt(Len(chunks))

NoHeaderLine == \A j \in 1..Len(lines) : ~IsHeader(lines[j])

\* The hierarchy a prefix ls of the document stands for: slot l is decided
\* by the last header line of ls whose level is at most l; it holds that
\* header's text when the level is l and is empty otherwise.
HierarchyOf(ls) ==
    LET lv == [j \in 1..Len(ls) |->
                  LET m == HeaderMatch(ls[j])
                  IN  IF m = None THEN 0 ELSE Len(m.group1)]
    IN  [l \in 1..NumLevels |->
            LET hs == {j \in 1..Len(ls) : lv[j] >= 1 /\ lv[j] <= l}
            IN  IF hs = {} THEN << >>
                ELSE IF lv[SetMax(hs)] = l THEN HeaderText(ls[SetMax(hs)])
                ELSE << >>]

\* the non-empty entries of a 5-slot hierarchy, in level order
Dense(h) ==
    LET set == {l \in 1..NumLevels : h[l] # << >>}
    IN  [n \in 1..Cardinality(set) |->
            h[CHOOSE l \in set : Cardinality({m \in set : m <= l}) = n]]

\* C1: the ids of the emitted chunks, in output order, are source_0,
\* source_1, ..., source_(n-1): numbering starts at 0, has no gaps (a flush
\* that discards whitespace-only text consumes no number) and no duplicates.
C1_IdsSequential ==
    /\ \A k \in 1..Len(chunks) : ChunkAt(k).id = FormatId(source, k - 1)
    /\ \A j, k \in 1..Len(chunks) : j # k => ChunkAt(j).id # ChunkAt(k).id

\* a finished call with two chunks whose first flush discarded blank lines
C1_Witness ==
    /\ Done
    /\ Len(chunks) >= 2
    /\ Len(lines) >= 3
    /\ AllSpace(lines[1])
    /\ IsHeader(lines[2])

\* C2: processing a header line of level L leaves slot L holding the
\* header's text, every slot at levels L+1..5 empty and the slots at levels
\* 1..L-1 unchanged; hence a chunk that starts with a header line of level L
\* lists at most L headers, none deeper than its own.
C2_HeaderResets ==
    [][ /\ AtHeader =>
            LET L == Level(lines[i])
            IN  /\ Slots'[L] = HeaderText(lines[i])
                /\ \A l \in (L + 1)..NumLevels : Slots'[l] = << >>
                /\ \A l \in 1..(L - 1) : Slots'[l] = Slots[l]
        /\ (Emits /\ current_chunk # << >> /\ IsHeader(current_chunk[1])) =>
            Len(LastEmitted'.headers) <= Level(current_chunk[1])
      ]_vars

\* a header line has just repeated the text its level already held, while a
\* deeper level was set: the deeper level is now empty
C2_Witness ==
    /\ pc = "loop"
    /\ i >= 3
    /\ IsHeader(lines[i - 1])
    /\ LET L == Level(lines[i - 1])
           before == HierarchyOf(SubSeq(lines, 1, i - 2))
       IN  /\ before[L] # << >>
           /\ before[L] = HeaderText(lines[i - 1])
           /\ \E l \in (L + 1)..NumLevels : before[l] # << >> /\ Slots[l] = << >>

\* C3: a chunk's headers is the dense list, in level order, of the non-empty
\* hierarchy slots as they stand after the chunk's last line: the hierarchy
\* of the header lines up to and including the chunk's own and of none after
\* it (the flush a header line triggers precedes that line's update).  It
\* has at most 5 entries, none of them empty.
C3_HeadersSnapshot ==
    [][ /\ Emits =>
            LET last == IF pc' = "done" THEN Len(lines) ELSE i - 1
            IN  /\ \A h \in {HierarchyOf(SubSeq(lines, 1, last))} :
                      LastEmitted'.headers = Dense(h)
                /\ LastEmitted'.headers = Dense(Slots)
        /\ \A k \in 1..Len(chunks') :
              /\ Len(ChunkAt(k)'.headers) <= NumLevels
              /\ \A j \in 1..Len(ChunkAt(k)'.headers) :
                    ChunkAt(k)'.headers[j] # << >>
      ]_vars

\* a finished call that emitted a chunk with five headers after a chunk
\* that a header line flushed with fewer
C3_Witness ==
    /\ Done
    /\ \E k \in 2..Len(chunks) :
          /\ Len(ChunkAt(k).headers) = NumLevels
          /\ Len(ChunkAt(k - 1).headers) < NumLevels

\* C4: the empty string and every whitespace-only content yield no chunk.
C4_BlankGivesNothing == (Done /\ AllSpace(content)) => Emitted = << >>

\* a finished call on a content of spaces, tabs and newlines
C4_Witness ==
    /\ Done
    /\ content # << >>
    /\ {content[k] : k \in 1..Len(content)} = Whitespace

\* C5: a document without header line yields at most one chunk; when it is
\* not whitespace-only it yields exactly one chunk, with no headers, whose
\* text is the whole document stripped.
C5_NoHeaderRoundTrip ==
    (Done /\ NoHeaderLine) =>
        /\ Len(chunks) <= 1
        /\ ~AllSpace(content) =>
              /\ Len(chunks) = 1
              /\ ChunkAt(1).headers = << >>
              /\ ChunkAt(1).text = Strip(content)

\* a finished call on a header-free document with surrounding whitespace to
\* strip and a blank line in its interior to keep
C5_Witness ==
    /\ Done
    /\ NoHeaderLine
    /\ Len(chunks) = 1
    /\ Strip(content) # content
    /\ \E k \in 1..(Len(ChunkAt(1).text) - 1) :
          ChunkAt(1).text[k] = NL /\ ChunkAt(1).text[k + 1] = NL

\* the header lines of the document
HeaderLines == {j \in 1..Len(lines) : IsHeader(lines[j])}
TheHeader == CHOOSE j \in HeaderLines : TRUE
ContentAfter(h) == \E j \in (h + 1)..Len(lines) : ~AllSpace(lines[j])
ContentBefore(h) == \E j \in 1..(h - 1) : ~AllSpace(lines[j])

\* C6 as stated: a document with exactly one header line and content after
\* it yields exactly one chunk, whose headers is [headerText].  The chunks
\* emitted during the scan are chunks of the result, so none but that one
\* may be emitted.
C6_OneHeaderOneChunk ==
    (Cardinality(HeaderLines) = 1 /\ ContentAfter(TheHeader)) =>
        /\ Len(chunks) <= 1
        /\ Done => Len(chunks) = 1
        /\ \A k \in 1..Len(chunks) :
              ChunkAt(k).headers = <<HeaderText(lines[TheHeader])>>

\* C6 amended: a document with exactly one header line, content after it
\* and nothing but whitespace before it yields exactly one chunk; its
\* headers is [headerText], or [] when the header text trims to nothing.
C6_OneLeadingHeaderOneChunk ==
    (/\ Done
     /\ Cardinality(HeaderLines) = 1
     /\ ContentAfter(TheHeader)
     /\ ~ContentBefore(TheHeader)) =>
        /\ Len(chunks) = 1
        /\ ChunkAt(1).headers =
              IF HeaderText(lines[TheHeader]) = << >> THEN << >>
              ELSE <<HeaderText(lines[TheHeader])>>

\* a finished call on a document whose only header line follows a blank
\* line and is followed by content
C6_Witness ==
    /\ Done
    /\ Cardinality(HeaderLines) = 1
    /\ TheHeader > 1
    /\ ContentAfter(TheHeader)
    /\ ~ContentBefore(TheHeader)
    /\ HeaderText(lines[TheHeader]) # << >>
    /\ Len(chunks) = 1

\* the number of leading '#' of a line
RECURSIVE LeadingHashes(_)
LeadingHashes(line) ==
    IF line # << >> /\ Head(line) = "#" THEN 1 + LeadingHashes(Tail(line))
    ELSE 0

Last(s) == s[Len(s)]

\* C7: a line is a header only when it has 1 to 5 leading '#', then at
\* least one whitespace character, then non-empty remaining text; the level
\* is the number of leading '#' and the stored text is the remaining content
\* trimmed.  Consequently every chunk that begins with a header line has
\* that header's trimmed text, a non-empty string, as the last of its headers.
C7_HeaderTextLast ==
    [][ /\ AtHeader =>
            LET n == LeadingHashes(lines[i])
            IN  /\ n \in 1..MaxHeaderHashes
                /\ Len(lines[i]) >= n + 2
                /\ IsSpace(lines[i][n + 1])
                /\ Level(lines[i]) = n
                /\ Slots'[n] = Strip(SubSeq(lines[i], n + 1, Len(lines[i])))
        /\ (Emits /\ current_chunk # << >> /\ IsHeader(current_chunk[1])) =>
            /\ HeaderText(current_chunk[1]) # << >>
            /\ LastEmitted'.headers # << >>
            /\ Last(LastEmitted'.headers) = HeaderText(current_chunk[1])
      ]_vars

\* C8: a line that begins with 6 or more '#' is no header boundary: its
\* step flushes nothing, leaves the hierarchy and the counter unchanged and
\* appends the line to the accumulator, and the line ends up as a line of
\* the text of the chunk that the accumulator is flushed into.
C8_SixHashesIsContent ==
    [][ /\ (AtLine /\ LeadingHashes(lines[i]) >= MaxHeaderHashes + 1) =>
            /\ chunks' = chunks
            /\ heap' = heap
            /\ chunk_id' = chunk_id
            /\ current_chunk' = Append(current_chunk, lines[i])
        /\ Emits =>
            \A j \in 1..Len(current_chunk) :
                LeadingHashes(current_chunk[j]) >= MaxHeaderHashes + 1 =>
                    \E m \in 1..Len(Split(LastEmitted'.text)) :
                        Split(LastEmitted'.text)[m]
                            \in {current_chunk[j], Strip(current_chunk[j])}
      ]_vars

\* a finished call whose single chunk holds a header line and, right after
\* it, a line of six '#'
C8_Witness ==
    /\ Done
    /\ Len(chunks) = 1
    /\ Len(lines) >= 3
    /\ IsHeader(lines[1])
    /\ LeadingHashes(lines[2]) >= MaxHeaderHashes + 1
    /\ ChunkAt(1).headers = <<HeaderText(lines[1])>>

\* the step performs a flush
Flushes ==
    \/ AtHeader /\ current_chunk # << >>
    \/ pc = "loop" /\ i > Len(lines)

\* C9: every emitted chunk has a non-empty text without leading or trailing
\* whitespace; a flush whose accumulated lines strip to the empty string
\* emits no chunk, and each flush emits at most one chunk.
C9_TextTrimmed ==
    [][ /\ Len(chunks') <= Len(chunks) + 1
        /\ (Flushes /\ Strip(Join(current_chunk)) = << >>) => chunks' = chunks
        /\ \A k \in 1..Len(chunks') :
              /\ ChunkAt(k)'.text # << >>
              /\ ~IsSpace(Head(ChunkAt(k)'.text))
              /\ ~IsSpace(Last(ChunkAt(k)'.text))
      ]_vars

\* a finished call whose first flush discarded a blank line and whose last
\* flush trimmed whitespace off the chunk it emitted
C9_Witness ==
    /\ Done
    /\ Len(chunks) >= 1
    /\ Len(lines) >= 3
    /\ AllSpace(lines[1])
    /\ IsHeader(lines[2])
    /\ Last(Emitted).text # Join(current_chunk)

\* C10: an emitted chunk never changes while later lines are processed and
\* the emitted list only grows at its end: at every step the list emitted
\* so far is a prefix of the list after the step; later updates and clears
\* of the hierarchy do not reach the headers of an emitted chunk.
C10_EmittedIsPrefix ==
    [][ /\ Len(chunks) <= Len(chunks')
        /\ \A k \in 1..Len(chunks) : ChunkAt(k)' = ChunkAt(k)
      ]_vars

\* an emitted chunk lists more headers than the hierarchy now holds: a
\* later header line cleared slots the chunk had copied
C10_Witness ==
    /\ Len(chunks) >= 2
    /\ \E k \in 1..Len(chunks) :
          Len(ChunkAt(k).headers) > Len(Dense(Slots))

\* the accumulator holds a header line followed by nothing but blank lines
HeaderOnlyPending ==
    /\ current_chunk # << >>
    /\ IsHeader(current_chunk[1])
    /\ \A j \in 2..Len(current_chunk) : AllSpace(current_chunk[j])

\* C16: when a header line is processed while the accumulator holds only the
\* previous header line (and perhaps blank lines), a chunk is emitted for the
\* previous header: its text is that header line stripped and its headers
\* end with that header's text.
C16_BackToBackHeaders ==
    [][ (AtHeader /\ HeaderOnlyPending) =>
            /\ Emits
            /\ LastEmitted'.text = Strip(current_chunk[1])
            /\ LastEmitted'.headers # << >>
            /\ Last(LastEmitted'.headers) = HeaderText(current_chunk[1])
      ]_vars

\* C17: header matching does not look at code fences.  A line that matches
\* the header pattern is a boundary also when it lies inside a fenced block:
\* its step flushes the accumulator, stores the header and starts the next
\* accumulator with the line.  A fence line, and every other line of a fenced
\* block, is appended to the accumulator and flushes nothing, so a fenced
\* block without a header-pattern line stays in one accumulator.
C17_FencesIgnored ==
    [][ /\ (AtHeader /\ InFence(i)) =>
            /\ current_chunk' = <<lines[i]>>
            /\ Slots'[Level(lines[i])] = HeaderText(lines[i])
            /\ Strip(Join(current_chunk)) # << >> =>
                   /\ Emits
                   /\ LastEmitted'.text = Strip(Join(current_chunk))
        /\ (AtLine /\ ~IsHeader(lines[i])
                   /\ (IsFenceLine(lines[i]) \/ InFence(i))) =>
            /\ chunks' = chunks
            /\ heap' = heap
            /\ current_chunk' = Append(current_chunk, lines[i])
      ]_vars

\* a finished scan of a fenced block with a header line inside: the opening
\* fence went into one chunk, the header and the closing fence into the next
C17_Witness ==
    /\ Done
    /\ \E o, h, c \in 1..Len(lines) :
          /\ o < h /\ h < c
          /\ IsFenceLine(lines[o]) /\ ~InFence(o)
          /\ IsHeader(lines[h]) /\ InFence(h)
          /\ IsFenceLine(lines[c]) /\ InFence(c)
          /\ \E k \in 1..(Len(chunks) - 1) :
                /\ Last(Split(ChunkAt(k).text)) = Strip(lines[h - 1])
                /\ Split(ChunkAt(k + 1).text)[1] = lines[h]

\* the header lines in document order, and the line that ends the segment
\* of header line h: the next header line, or one past the last line
FirstHeader == IF HeaderLines = {} THEN Len(lines) + 1 ELSE SetMin(HeaderLines)
NextHeader(h) ==
    LET later == {j \in HeaderLines : j > h}
    IN  IF later = {} THEN Len(lines) + 1 ELSE SetMin(later)
Rank(h) == Cardinality({j \in HeaderLines : j <= h})

\* 1 when text that is not whitespace precedes the first header line
Leading == IF ContentBefore(FirstHeader) THEN 1 ELSE 0

\* C18: the result partitions the document at its header lines.  There is
\* one chunk per header line, plus one chunk before them when text that is
\* not whitespace precedes the first header line; the chunk of a header line
\* is made of the lines from that header line up to the next header line, so
\* the header line is its first line and it contains no other header line;
\* the leading chunk contains no header line.
C18_PartitionAtHeaders ==
    Done =>
        /\ Len(chunks) = Cardinality(HeaderLines) + Leading
        /\ \A h \in HeaderLines :
              LET c == ChunkAt(Leading + Rank(h))
              IN  /\ c.text = Strip(Join(SubSeq(lines, h, NextHeader(h) - 1)))
                  /\ Split(c.text)[1] \in {lines[h], Strip(lines[h])}
                  /\ \A j \in (h + 1)..(NextHeader(h) - 1) : ~IsHeader(lines[j])
        /\ Leading = 1 =>
              /\ ChunkAt(1).text = Strip(Join(SubSeq(lines, 1, FirstHeader - 1)))
              /\ \A j \in 1..(FirstHeader - 1) : ~IsHeader(lines[j])

\* a finished scan of a document with text before its first header line and
\* at least two header lines, one of them followed by content
C18_Witness ==
    /\ Done
    /\ Leading = 1
    /\ Cardinality(HeaderLines) >= 2
    /\ \E h \in HeaderLines : NextHeader(h) > h + 1
    /\ Len(chunks) = Cardinality(HeaderLines) + 1

\* the lines of ls that hold a character that is not whitespace, each
\* trimmed, in order
RECURSIVE ContentLines(_)
ContentLines(ls) ==
    IF ls = << >> THEN << >>
    ELSE IF AllSpace(ls[1]) THEN ContentLines(Tail(ls))
         ELSE <<Strip(ls[1])>> \o ContentLines(Tail(ls))

\* the lines of the texts of chunks 1..n, in output order
RECURSIVE TextLines(_)
TextLines(n) ==
    IF n = 0 THEN << >> ELSE TextLines(n - 1) \o Split(ChunkAt(n).text)

\* the characters of s that are not whitespace, in order
NonSpace(s) == SelectSeq(s, LAMBDA c : ~IsSpace(c))

\* C19: the result loses and duplicates no content.  The lines of the
\* document that hold a character that is not whitespace are, in document
\* order and each exactly once, the non-blank lines of the chunk texts in
\* output order; of a line nothing but whitespace at its two ends can be
\* missing, and the content after the last header line is in the last chunk.
C19_NoContentLost ==
    Done =>
        /\ ContentLines(TextLines(Len(chunks))) = ContentLines(lines)
        /\ NonSpace(Join(TextLines(Len(chunks)))) = NonSpace(content)
        /\ (HeaderLines # {} /\ ContentAfter(SetMax(HeaderLines))) =>
              LastEmitted.text =
                  Strip(Join(SubSeq(lines, SetMax(HeaderLines), Len(lines))))
        /\ \A k \in 1..Len(chunks) :
              \E a, b \in 1..Len(lines) :
                  ChunkAt(k).text = Strip(Join(SubSeq(lines, a, b)))

\* a finished scan of a document with content before its first header line
\* and content after its last one, both of which reach the result
C19_Witness ==
    /\ Done
    /\ HeaderLines # {}
    /\ ContentBefore(FirstHeader)
    /\ ContentAfter(SetMax(HeaderLines))
    /\ Len(chunks) >= 2
    /\ ContentLines(TextLines(Len(chunks))) = ContentLines(lines)

(***************************************************************************)
(* Properties of concurrent calls.                                         *)
(***************************************************************************)
\* the list objects call c holds a reference to
Refs(c) ==
    (IF calls[c].pc = "start" THEN {} ELSE {calls[c].current_headers}) \cup
    {calls[c].chunks[k].headers : k \in 1..Len(calls[c].chunks)}

\* what each call returns for each document when it runs alone
Alone ==
    [c \in CallIds |-> [d \in CallDocs |-> ChunkMarkdown(d, CallSources[c])]]

\* C11: two calls share no mutable state.  In every interleaving of their
\* statements the calls hold references to disjoint sets of list objects, a
\* call that enters starts with an empty accumulator, counter 0 and an empty
\* hierarchy of its own, and a call that has returned has returned exactly
\* what chunk_markdown returns for its arguments when run alone, whatever
\* the other call did before or meanwhile.
C11_CallsIndependent ==
    /\ Refs(1) \cap Refs(2) = {}
    /\ \A c \in CallIds :
          /\ (calls[c].pc = "loop" /\ calls[c].i = 1) =>
                /\ heap[calls[c].current_headers] = EmptyHeaders
                /\ calls[c].current_chunk = << >>
                /\ calls[c].chunk_id = 0
                /\ calls[c].chunks = << >>
          /\ calls[c].pc = "done" =>
                Returned(calls[c], heap) = Alone[c][calls[c].content]

\* both calls have returned two chunks of different hierarchies, and their
\* flushes alternated: call 2 emitted a chunk between two chunks of call 1
C11_Witness ==
    /\ \A c \in CallIds : calls[c].pc = "done" /\ Len(calls[c].chunks) = 2
    /\ calls[1].content # calls[2].content
    /\ Returned(calls[1], heap)[2].headers # Returned(calls[2], heap)[2].headers
    /\ calls[1].chunks[1].headers < calls[2].chunks[1].headers
    /\ calls[2].chunks[1].headers < calls[1].chunks[2].headers

(***************************************************************************)
(* Properties of generate_embeddings and main.                             *)
(***************************************************************************)
\* generate_embeddings has built its texts
Embedded == encode_calls > 0

\* where header j of the list h starts in the joined prefix, counted from 0:
\* after the headers before it and one three-character separator each
Offset(h) ==
    LET off[j \in 1..(Len(h) + 1)] ==
            IF j = 1 THEN 0 ELSE off[j - 1] + Len(h[j - 1]) + 3
    IN  off

\* C12: the text submitted for a chunk with headers is the headers, each two
\* of them separated by ' > ', then one newline, then the text of the chunk;
\* for a chunk without headers it is exactly the text of the chunk.
C12_SubmittedText ==
    Embedded =>
        \A k \in 1..Len(all_chunks) :
            LET c == all_chunks[k]
                t == texts[k]
                n == Len(c.headers)
                off == Offset(c.headers)
                plen == off[n + 1] - 2
            IN  /\ n = 0 => t = c.text
                /\ n > 0 =>
                      /\ Len(t) = plen + Len(c.text)
                      /\ \A j \in 1..n :
                            SubSeq(t, off[j] + 1, off[j] + Len(c.headers[j]))
                                = c.headers[j]
                      /\ \A j \in 1..(n - 1) :
                            SubSeq(t, off[j + 1] - 2, off[j + 1])
                                = <<" ", ">", " ">>
                      /\ t[plen] = NL
                      /\ SubSeq(t, plen + 1, Len(t)) = c.text

\* texts were built for a chunk without headers and for a chunk with two
C12_Witness ==
    /\ Embedded
    /\ \E j, k \in 1..Len(all_chunks) :
          /\ all_chunks[j].headers = << >>
          /\ texts[j] = <<"x">>
          /\ Len(all_chunks[k].headers) = 2
          /\ texts[k] = <<"a", " ", ">", " ", "b", NL, "#", "#", " ", "b">>

\* the chunks of the first n files, file after file
RECURSIVE Pooled(_)
Pooled(n) ==
    IF n = 0 THEN << >>
    ELSE Pooled(n - 1) \o ChunkMarkdown(md_files[n].content, md_files[n].stem)

\* C13: generate_embeddings builds one text per chunk, in the order of the
\* chunks, and calls the encoder once for all of them; main pools the chunks
\* file after file and writes the pooled chunks and the embeddings in that
\* one order.  With an encoder that keeps length and order, the embeddings
\* written are as many as the chunks written and embedding k is the vector
\* of the text of chunk k.
C13_IndexAligned ==
    /\ encode_calls <= 1
    /\ all_chunks = Pooled(md_i - 1)
    /\ Embedded =>
          /\ Len(texts) = Len(all_chunks)
          /\ \A k \in 1..Len(texts) : texts[k] = EmbedText(all_chunks[k])
          /\ Len(embeddings) = Len(texts)
          /\ \A k \in 1..Len(texts) : embeddings[k] = Vector(texts[k])
    /\ chunks_json # None => chunks_json.data = all_chunks
    /\ embeddings_json # None =>
          /\ chunks_json # None
          /\ Len(embeddings_json.data) = Len(chunks_json.data)
          /\ \A k \in 1..Len(chunks_json.data) :
                embeddings_json.data[k] =
                    Vector(EmbedText(chunks_json.data[k]))

\* a finished run over two files that wrote chunks with and without headers
C13_Witness ==
    /\ mpc = "done"
    /\ Len(md_files) = 2
    /\ embeddings_json # None
    /\ Len(embeddings_json.data) >= 3
    /\ \E j, k \in 1..Len(chunks_json.data) :
          /\ j < k
          /\ chunks_json.data[j].source # chunks_json.data[k].source
          /\ chunks_json.data[j].headers # << >>
          /\ chunks_json.data[k].headers = << >>

\* main is about to read a file that cannot be read
AtUnreadable ==
    mpc = "load" /\ md_i <= Len(md_files) /\ ~md_files[md_i].readable

\* C14: a document that fails to load is skipped and the failure is not
\* fatal: the step of main at a file that cannot be read leaves main in its
\* loop at the next file with the pooled chunks unchanged, and a run ends
\* abnormally only after every file was visited.
C14_LoadFailureSkipped ==
    [][ /\ AtUnreadable =>
            /\ mpc' = "load"
            /\ md_i' = md_i + 1
            /\ all_chunks' = all_chunks
        /\ mpc' = "crashed" => md_i' > Len(md_files)
      ]_vars

\* the run ended abnormally after every file was chunked: the embedding
\* generation failed
EmbedFailed == mpc = "crashed" /\ md_i > Len(md_files)

\* C15: when the embedding generation fails the run is over and no
\* embeddings file is written; and in every state in which the embeddings
\* file is written, the chunk file is written too and holds the batch the
\* embeddings were computed from.
C15_NoEmbeddingsWithoutChunks ==
    /\ EmbedFailed => embeddings_json = None /\ chunks_json = None
    /\ mpc = "crashed" => embeddings_json = None
    /\ embeddings_json # None =>
          /\ chunks_json # None
          /\ chunks_json.data = all_chunks
          /\ embeddings_json.data =
                 Encode([k \in 1..Len(all_chunks) |-> EmbedText(all_chunks[k])])

\* the embedding generation failed for a batch of chunks of two files
C15_Witness ==
    /\ EmbedFailed
    /\ Len(md_files) = 2
    /\ Len(all_chunks) >= 2
    /\ embeddings_json = None

\* C20: the ids of the pooled chunks are unique: no two chunks of the pool
\* have the same id, in particular no id of a chunk of one source is the id
\* of a chunk of another source, also when one source is a prefix of the
\* other and ends in '_' and digits.
C20_PooledIdsUnique ==
    \A j, k \in 1..Len(all_chunks) :
        /\ j # k => all_chunks[j].id # all_chunks[k].id
        /\ all_chunks[j].source # all_chunks[k].source =>
               all_chunks[j].id # all_chunks[k].id

\* the pool holds chunk a_1 of source 'a' and chunk a_1_0 of source 'a_1'
C20_Witness ==
    \E j, k \in 1..Len(all_chunks) :
        /\ all_chunks[j].source = <<"a">>
        /\ all_chunks[j].id = <<"a", "_", "1">>
        /\ all_chunks[k].source = <<"a", "_", "1">>
        /\ all_chunks[k].id = <<"a", "_", "1", "_", "0">>

=============================================================================
